---- MODULE Spec2Model ----
(***************************************************************************)
(* Model of the automaton definition pipeline of python-fsa's command line *)
(* front ends (main3-0.py, main2-0.py): the flat transition-record build,  *)
(* the graph-text reconstructor parse_dot_file, and the JSON codec         *)
(* serialize_automaton / deserialize_automaton.                            *)
(*                                                                         *)
(* A Python string is modelled as a sequence of lexemes (a "Str"): the     *)
(* state name q0 is <<"q0">>, the text "null -> q0;" is                     *)
(* <<"null", " ", "->", " ", "q0", ";">>, the empty string is <<>>.         *)
(* The string methods the code uses (strip, split, startswith, replace,    *)
(* in) are operators over such sequences.                                  *)
(***************************************************************************)
EXTENDS Integers, Sequences, FiniteSets, TLC

VARIABLES
    pc,                    \* position of main()
    path,                  \* the branch main() takes on args: "flat" or "dot"
    automaton_type,        \* main: automaton_type ("none" before it is set)
    alphabet,              \* main: alphabet (tuple of Str)
    states,                \* main: states (tuple of Str)
    initial,               \* main: initial
    final_states,          \* main: final_states (tuple of Str)
    transitions,           \* main: transitions, (state, symbol) -> target(s)
    records,               \* the --transitions arguments consumed so far
    dot_lines,             \* the lines of the DOT text scanned so far
    scan,                  \* parse_dot_file: its locals during the scan
    processed_transitions, \* parse_dot_file: processed_transitions
    automaton,             \* the engine object main holds
    saved,                 \* the dictionary written by --save-to
    loaded,                \* the engine object deserialize_automaton returns
    visualized,            \* a picture of the automaton has been rendered
    session,               \* the interactive testing loop: what it read and did
    engine,                \* an engine object and what was derived from it
    error,                 \* what was printed to stderr before sys.exit(1)
    exit_status            \* the process exit status (-1 while running)

vars == <<pc, path, automaton_type, alphabet, states, initial, final_states,
          transitions, records, dot_lines, scan, processed_transitions,
          automaton, saved, loaded, visualized, session, engine, error,
          exit_status>>

----------------------------------------------------------------------------
(* Bounds of the model *)

MaxRecords == 3

MaxLines == 3

MaxInputs == 3

MaxWord == 3

----------------------------------------------------------------------------
(* Python values *)

None == <<"None">>

EmptyDict == [p \in {} |-> <<>>]

Range(s) == {s[i] : i \in 1..Len(s)}

DictSet(d, k, v) == [x \in (DOMAIN d) \cup {k} |-> IF x = k THEN v ELSE d[x]]

----------------------------------------------------------------------------
(* str methods *)

RECURSIVE LStrip(_)
LStrip(s) == IF s # <<>> /\ Head(s) = " " THEN LStrip(Tail(s)) ELSE s

RECURSIVE RStrip(_)
RStrip(s) ==
    IF s # <<>> /\ s[Len(s)] = " " THEN RStrip(SubSeq(s, 1, Len(s) - 1)) ELSE s

Strip(s) == RStrip(LStrip(s))

StartsWith(s, prefix) ==
    /\ Len(prefix) <= Len(s)
    /\ SubSeq(s, 1, Len(prefix)) = prefix

Contains(s, tok) == \E i \in 1..Len(s) : s[i] = tok

RECURSIVE SplitFrom(_, _, _)
SplitFrom(s, sep, cur) ==
    IF s = <<>> THEN <<cur>>
    ELSE IF Head(s) = sep THEN <<cur>> \o SplitFrom(Tail(s), sep, <<>>)
    ELSE SplitFrom(Tail(s), sep, Append(cur, Head(s)))

Split(s, sep) == SplitFrom(s, sep, <<>>)

RECURSIVE Replace(_, _)
Replace(s, old) ==
    IF s = <<>> THEN <<>>
    ELSE IF StartsWith(s, old) THEN Replace(SubSeq(s, Len(old) + 1, Len(s)), old)
    ELSE <<Head(s)>> \o Replace(Tail(s), old)

StripAll(parts) == [i \in 1..Len(parts) |-> Strip(parts[i])]

----------------------------------------------------------------------------
(* Command line inputs of the flat-record build *)

TypeArgs == {"dfa", "nfa"}

AlphabetArg == <<"a", ",", "b">>

StatesArg == <<"q0", ",", " ", "q1">>

InitialArgs == {<<"q0">>, <<" ", "q1">>, <<"q2">>}

FinalArgs == {<<"q1">>, <<"q1", ",", "q2">>}

TransitionArgs ==
    { <<"q0", ",", "a", ",", "q0">>,
      <<"q0", ",", "a", ",", "q1">>,
      <<"q0", ",", "b", ",", "q1">>,
      <<"q0", ",", " ", "b", " ", ",", "q0">>,
      <<"q1", ",", "a", ",", "q0">>,
      <<"q2", ",", "a", ",", "q0">>,
      <<"q0", ",", "z", ",", "q1">>,
      <<"q0", ",", "a", ",", "q2">>,
      <<"q2", ",", "z", ",", "q2">>,
      <<"q0", ",", "a">>,
      <<"q0", ",", "a", ",", "q0", ",", "q1">>,
      <<"q1", ",", "b", ",", "q1", ",", "q2">> }

----------------------------------------------------------------------------
(* main: the flat-record build *)

NoError == [kind |-> "none", name |-> <<>>, record |-> <<>>]

Err(kind, name, t) == [kind |-> kind, name |-> name, record |-> t]

\* parts = tuple(s.strip() for s in t.split(','))
Parts(t) == StripAll(Split(t, ","))

\* the first element of seq that is not in set, None when all are
RECURSIVE FirstNotIn(_, _)
FirstNotIn(seq, set) ==
    IF seq = <<>> THEN None
    ELSE IF Head(seq) \notin set THEN Head(seq)
    ELSE FirstNotIn(Tail(seq), set)

\* Mutant: the duplicate check is dropped, a later record overwrites.
DfaRecord_Overwrite(tr, t, sts, alph) ==
    LET parts == Parts(t) IN
    IF Len(parts) # 3
    THEN [transitions |-> tr, error |-> Err("MalformedRecord", <<>>, t)]
    ELSE IF parts[1] \notin Range(sts)
    THEN [transitions |-> tr, error |-> Err("UnknownState", parts[1], t)]
    ELSE IF parts[2] \notin Range(alph)
    THEN [transitions |-> tr, error |-> Err("UnknownSymbol", parts[2], t)]
    ELSE IF parts[3] \notin Range(sts)
    THEN [transitions |-> tr, error |-> Err("UnknownState", parts[3], t)]
    ELSE [transitions |-> DictSet(tr, <<parts[1], parts[2]>>, parts[3]),
          error |-> NoError]

\* Mutant: the target states are not checked.
DfaRecord_NoTargetCheck(tr, t, sts, alph) ==
    LET parts == Parts(t) IN
    IF Len(parts) # 3
    THEN [transitions |-> tr, error |-> Err("MalformedRecord", <<>>, t)]
    ELSE IF parts[1] \notin Range(sts)
    THEN [transitions |-> tr, error |-> Err("UnknownState", parts[1], t)]
    ELSE IF parts[2] \notin Range(alph)
    THEN [transitions |-> tr, error |-> Err("UnknownSymbol", parts[2], t)]
    ELSE IF <<parts[1], parts[2]>> \in DOMAIN tr
    THEN [transitions |-> tr, error |-> Err("DuplicateTransition", <<>>, t)]
    ELSE [transitions |-> DictSet(tr, <<parts[1], parts[2]>>, parts[3]),
          error |-> NoError]

\* Mutant: the duplicate pair is looked for before the target state.
DfaRecord_DuplicateFirst(tr, t, sts, alph) ==
    LET parts == Parts(t) IN
    IF Len(parts) # 3
    THEN [transitions |-> tr, error |-> Err("MalformedRecord", <<>>, t)]
    ELSE IF parts[1] \notin Range(sts)
    THEN [transitions |-> tr, error |-> Err("UnknownState", parts[1], t)]
    ELSE IF parts[2] \notin Range(alph)
    THEN [transitions |-> tr, error |-> Err("UnknownSymbol", parts[2], t)]
    ELSE IF <<parts[1], parts[2]>> \in DOMAIN tr
    THEN [transitions |-> tr, error |-> Err("DuplicateTransition", <<>>, t)]
    ELSE IF parts[3] \notin Range(sts)
    THEN [transitions |-> tr, error |-> Err("UnknownState", parts[3], t)]
    ELSE [transitions |-> DictSet(tr, <<parts[1], parts[2]>>, parts[3]),
          error |-> NoError]

\* Mutant: only records of fewer than three fields are malformed.
DfaRecord_LooseShape(tr, t, sts, alph) ==
    LET parts == Parts(t) IN
    IF Len(parts) < 3
    THEN [transitions |-> tr, error |-> Err("MalformedRecord", <<>>, t)]
    ELSE IF parts[1] \notin Range(sts)
    THEN [transitions |-> tr, error |-> Err("UnknownState", parts[1], t)]
    ELSE IF parts[2] \notin Range(alph)
    THEN [transitions |-> tr, error |-> Err("UnknownSymbol", parts[2], t)]
    ELSE IF parts[3] \notin Range(sts)
    THEN [transitions |-> tr, error |-> Err("UnknownState", parts[3], t)]
    ELSE IF <<parts[1], parts[2]>> \in DOMAIN tr
    THEN [transitions |-> tr, error |-> Err("DuplicateTransition", <<>>, t)]
    ELSE [transitions |-> DictSet(tr, <<parts[1], parts[2]>>, parts[3]),
          error |-> NoError]

\* One iteration of the 'dfa' loop over args.transitions.
DfaRecord(tr, t, sts, alph) ==
    LET parts == Parts(t) IN
    IF Len(parts) # 3
    THEN [transitions |-> tr, error |-> Err("MalformedRecord", <<>>, t)]
    ELSE IF parts[1] \notin Range(sts)
    THEN [transitions |-> tr, error |-> Err("UnknownState", parts[1], t)]
    ELSE IF parts[2] \notin Range(alph)
    THEN [transitions |-> tr, error |-> Err("UnknownSymbol", parts[2], t)]
    ELSE IF parts[3] \notin Range(sts)
    THEN [transitions |-> tr, error |-> Err("UnknownState", parts[3], t)]
    ELSE IF <<parts[1], parts[2]>> \in DOMAIN tr
    THEN [transitions |-> tr, error |-> Err("DuplicateTransition", <<>>, t)]
    ELSE [transitions |-> DictSet(tr, <<parts[1], parts[2]>>, parts[3]),
          error |-> NoError]

\* Mutant: a repeated pair replaces the accumulated targets.
NfaRecord_Replace(tr, t, sts, alph) ==
    LET parts == Parts(t)
        next_states_for_transition == SubSeq(parts, 3, Len(parts))
    IN
    IF Len(parts) < 3
    THEN [transitions |-> tr, error |-> Err("MalformedRecord", <<>>, t)]
    ELSE IF parts[1] \notin Range(sts)
    THEN [transitions |-> tr, error |-> Err("UnknownState", parts[1], t)]
    ELSE IF parts[2] \notin Range(alph)
    THEN [transitions |-> tr, error |-> Err("UnknownSymbol", parts[2], t)]
    ELSE IF FirstNotIn(next_states_for_transition, Range(sts)) # None
    THEN [transitions |-> tr,
          error |-> Err("UnknownState",
                        FirstNotIn(next_states_for_transition, Range(sts)), t)]
    ELSE [transitions |-> DictSet(tr, <<parts[1], parts[2]>>,
                                  next_states_for_transition),
          error |-> NoError]

\* Mutant: a record of two fields is accepted, with no target.
NfaRecord_ShortOk(tr, t, sts, alph) ==
    LET parts == Parts(t)
        next_states_for_transition == SubSeq(parts, 3, Len(parts))
        key == <<parts[1], parts[2]>>
    IN
    IF Len(parts) < 2
    THEN [transitions |-> tr, error |-> Err("MalformedRecord", <<>>, t)]
    ELSE IF parts[1] \notin Range(sts)
    THEN [transitions |-> tr, error |-> Err("UnknownState", parts[1], t)]
    ELSE IF parts[2] \notin Range(alph)
    THEN [transitions |-> tr, error |-> Err("UnknownSymbol", parts[2], t)]
    ELSE IF FirstNotIn(next_states_for_transition, Range(sts)) # None
    THEN [transitions |-> tr,
          error |-> Err("UnknownState",
                        FirstNotIn(next_states_for_transition, Range(sts)), t)]
    ELSE IF key \in DOMAIN tr
    THEN [transitions |-> DictSet(tr, key, tr[key] \o next_states_for_transition),
          error |-> NoError]
    ELSE [transitions |-> DictSet(tr, key, next_states_for_transition),
          error |-> NoError]

\* One iteration of the 'nfa' loop over args.transitions.
NfaRecord(tr, t, sts, alph) ==
    LET parts == Parts(t)
        next_states_for_transition == SubSeq(parts, 3, Len(parts))
        key == <<parts[1], parts[2]>>
    IN
    IF Len(parts) < 3
    THEN [transitions |-> tr, error |-> Err("MalformedRecord", <<>>, t)]
    ELSE IF parts[1] \notin Range(sts)
    THEN [transitions |-> tr, error |-> Err("UnknownState", parts[1], t)]
    ELSE IF parts[2] \notin Range(alph)
    THEN [transitions |-> tr, error |-> Err("UnknownSymbol", parts[2], t)]
    ELSE IF FirstNotIn(next_states_for_transition, Range(sts)) # None
    THEN [transitions |-> tr,
          error |-> Err("UnknownState",
                        FirstNotIn(next_states_for_transition, Range(sts)), t)]
    ELSE IF key \in DOMAIN tr
    THEN [transitions |-> DictSet(tr, key, tr[key] \o next_states_for_transition),
          error |-> NoError]
    ELSE [transitions |-> DictSet(tr, key, next_states_for_transition),
          error |-> NoError]

BuildRecord(type, tr, t, sts, alph) ==
    IF type = "dfa" THEN DfaRecord(tr, t, sts, alph)
    ELSE NfaRecord(tr, t, sts, alph)

\* The whole loop over a list of records, from an empty table: it stops at
\* the first record that fails.
RECURSIVE BuildFrom(_, _, _, _, _)
BuildFrom(type, tr, ts, sts, alph) ==
    IF ts = <<>> THEN [transitions |-> tr, error |-> NoError]
    ELSE LET r == BuildRecord(type, tr, Head(ts), sts, alph) IN
         IF r.error # NoError THEN r
         ELSE BuildFrom(type, r.transitions, Tail(ts), sts, alph)

BuildTransitions(type, ts, sts, alph) == BuildFrom(type, EmptyDict, ts, sts, alph)

----------------------------------------------------------------------------
(* The DOT text given to parse_dot_file: lexemes and input lines *)

NodeDoubleCircle == "node [shape = doublecircle]"

NodeCircle == "node [shape = circle]"

Arrow == "->"

LabelOpen == "label = \""

Quote == "\""

\* 'null ->', the prefix of the line that designates the initial state
Sentinel == <<"null", " ", Arrow>>

\* source -> target [label = "l1,l2,..."];
LabelledEdge(from, to, label) ==
    from \o <<" ", Arrow, " ">> \o to \o <<" ", "[", LabelOpen>> \o label
         \o <<Quote, "]", ";">>

DotLines ==
    { <<"null", " ", Arrow, " ", "q0", ";">>,
      <<" ", "null", " ", Arrow, " ", "q1", ";">>,
      <<"null", Arrow, "q0", ";">>,
      LabelledEdge(<<"q0">>, <<"q1">>, <<"a">>),
      LabelledEdge(<<"q0">>, <<"q2">>, <<"a">>),
      LabelledEdge(<<"q0">>, <<"q1">>, <<"a", ",", "a">>),
      LabelledEdge(<<"q1">>, <<"null">>, <<"b">>),
      LabelledEdge(<<Quote, "q0", ",", "q1", Quote>>, <<"q1">>, <<"a", ",", " ", "b">>),
      <<"q1", " ", Arrow, " ", "q0">>,
      <<NodeDoubleCircle, " ", "q1", ";">>,
      <<" ", NodeCircle, ";">>,
      <<"rankdir=LR", ";">> }

----------------------------------------------------------------------------
(* parse_dot_file: the scan of the lines *)

ScanInit ==
    [states |-> {}, alphabet |-> {}, transitions |-> EmptyDict,
     initial_state |-> None, final_states |-> {}, automaton_type |-> "dfa"]

IsDoubleCircleLine(line) == StartsWith(line, <<NodeDoubleCircle>>)

IsCircleLine(line) ==
    /\ ~IsDoubleCircleLine(line)
    /\ StartsWith(line, <<NodeCircle>>)

IsTransitionLine(line) ==
    /\ ~IsDoubleCircleLine(line)
    /\ ~StartsWith(line, <<NodeCircle>>)
    /\ Contains(line, Arrow)
    /\ ~StartsWith(line, Sentinel)

IsInitialLine(line) ==
    /\ ~IsDoubleCircleLine(line)
    /\ ~StartsWith(line, <<NodeCircle>>)
    /\ StartsWith(line, Sentinel)

IsOtherLine(line) ==
    /\ ~IsDoubleCircleLine(line)
    /\ ~StartsWith(line, <<NodeCircle>>)
    /\ ~Contains(line, Arrow)
    /\ ~StartsWith(line, Sentinel)

\* the branch for 'node [shape = doublecircle]' lines
DoubleCircleLine(acc, line) ==
    LET parts == Split(line, ";")
        names == { Strip(Replace(parts[i], <<NodeDoubleCircle>>)) :
                     i \in {j \in 1..Len(parts) : Contains(parts[j], NodeDoubleCircle)} }
                 \ {<<>>}
    IN [acc EXCEPT !.final_states = @ \cup names, !.states = @ \cup names]

\* from_state, to_state and symbols of a transition line
EdgeOf(line) ==
    LET parts == Split(line, Arrow)
        to_part == Strip(parts[2])
        label_match == Split(to_part, LabelOpen)
        label_str == IF Len(label_match) > 1
                     THEN Split(label_match[2], Quote)[1]
                     ELSE <<>>
    IN [from_state |-> Strip(parts[1]),
        to_state |-> IF Len(label_match) > 1
                     THEN Strip(Replace(Strip(label_match[1]), <<" ", "[">>))
                     ELSE Strip(to_part),
        symbols |-> IF label_str # <<>>
                    THEN StripAll(Split(label_str, ","))
                    ELSE << <<>> >>]

\* the loop 'for symbol in symbols' that appends to_state to the list of
\* (from_state, symbol) and sets automaton_type to 'nfa' when the list has
\* more than n entries
RECURSIVE AccumulateOver(_, _, _, _, _)
AccumulateOver(n, acc, from_state, symbols, to_state) ==
    IF symbols = <<>> THEN acc
    ELSE LET key == <<from_state, Head(symbols)>>
             current_transitions ==
                 (IF key \in DOMAIN acc.transitions
                  THEN acc.transitions[key] ELSE <<>>) \o <<to_state>>
         IN AccumulateOver(n,
              [acc EXCEPT
                 !.transitions = DictSet(@, key, current_transitions),
                 !.automaton_type =
                     IF Len(current_transitions) > n THEN "nfa" ELSE @],
              from_state, Tail(symbols), to_state)

\* Mutant: a pair counts as nondeterministic only from its third target on.
Accumulate_Late(acc, from_state, symbols, to_state) ==
    AccumulateOver(2, acc, from_state, symbols, to_state)

\* 'if len(current_transitions) > 1: automaton_type = "nfa"'
Accumulate(acc, from_state, symbols, to_state) ==
    AccumulateOver(1, acc, from_state, symbols, to_state)

\* the branch for lines with '->' that do not start with 'null ->'
TransitionLine(acc, line) ==
    LET e == EdgeOf(line) IN
    Accumulate(
      [acc EXCEPT
         !.states = @ \cup {e.from_state, e.to_state},
         !.alphabet = @ \cup (Range(e.symbols) \ {<<>>})],
      e.from_state, e.symbols, e.to_state)

\* the branch for lines that start with 'null ->'
InitialLine(acc, line) ==
    LET initial_state == Strip(Replace(Strip(Replace(line, Sentinel)), <<";">>)) IN
    [acc EXCEPT !.initial_state = initial_state,
                !.states = @ \cup {initial_state}]

\* Mutant: a line of no known form is taken for the declaration of a node.
ScanLine_OtherAsNode(acc, raw) ==
    LET line == Strip(raw) IN
    IF IsDoubleCircleLine(line) THEN DoubleCircleLine(acc, line)
    ELSE IF IsCircleLine(line) THEN acc
    ELSE IF IsTransitionLine(line) THEN TransitionLine(acc, line)
    ELSE IF IsInitialLine(line) THEN InitialLine(acc, line)
    ELSE [acc EXCEPT !.states = @ \cup {Strip(Replace(line, <<";">>))}]

\* the body of 'for line in lines'
ScanLine(acc, raw) ==
    LET line == Strip(raw) IN
    IF IsDoubleCircleLine(line) THEN DoubleCircleLine(acc, line)
    ELSE IF IsCircleLine(line) THEN acc
    ELSE IF IsTransitionLine(line) THEN TransitionLine(acc, line)
    ELSE IF IsInitialLine(line) THEN InitialLine(acc, line)
    ELSE acc

RECURSIVE ScanFrom(_, _)
ScanFrom(acc, lines) ==
    IF lines = <<>> THEN acc ELSE ScanFrom(ScanLine(acc, Head(lines)), Tail(lines))

ScanLines(lines) == ScanFrom(ScanInit, lines)

----------------------------------------------------------------------------
(* parse_dot_file: finalization *)

\* the elements of a set in a fixed order: a frozenset handed to the engine
\* is modelled by the list of its elements in iteration order
RECURSIVE SeqOf(_)
SeqOf(S) ==
    IF S = {} THEN <<>>
    ELSE LET x == CHOOSE y \in S : TRUE IN <<x>> \o SeqOf(S \ {x})

\* tuple(sorted(set(xs))): the distinct elements of xs in a canonical order
SortedSet(xs) == SeqOf(Range(xs))

\* Mutant: the target lists are kept as they were accumulated.
ProcessTransitions_Raw(acc) ==
    [p \in DOMAIN acc.transitions |->
       IF acc.automaton_type = "dfa" THEN acc.transitions[p][1]
       ELSE acc.transitions[p]]

\* the loop that fills processed_transitions (its ValueError is BadPairs # {})
ProcessTransitions(acc) ==
    [p \in DOMAIN acc.transitions |->
       IF acc.automaton_type = "dfa" THEN acc.transitions[p][1]
       ELSE SortedSet(acc.transitions[p])]

BadPairs(acc) ==
    IF acc.automaton_type = "dfa"
    THEN {p \in DOMAIN acc.transitions : Len(acc.transitions[p]) # 1}
    ELSE {}

\* 'Ensure all states in transitions are in the states set'
StatesOfTransitions(type, processed) ==
    {p[1] : p \in DOMAIN processed}
      \cup (IF type = "dfa"
            THEN {processed[p] : p \in DOMAIN processed}
            ELSE UNION {Range(processed[p]) : p \in DOMAIN processed})

----------------------------------------------------------------------------
(* The engine constructors DFA(...) and NFA(...) of python_fsa *)

NoAutomaton == [type |-> "none"]

Definition(type, alph, sts, init, final, trans) ==
    [type |-> type, alphabet |-> alph, states |-> sts, initial |-> init,
     final |-> final, transitions |-> trans]

Targets(d, p) ==
    IF d.type = "dfa" THEN {d.transitions[p]} ELSE Range(d.transitions[p])

\* the invariants of a Definition; the constructor signals a construction
\* error for fields that break them
ValidDefinition(d) ==
    /\ d.initial \in Range(d.states)
    /\ Range(d.final) \subseteq Range(d.states)
    /\ \A p \in DOMAIN d.transitions :
         /\ p[1] \in Range(d.states)
         /\ p[2] \in Range(d.alphabet)
         /\ Targets(d, p) \subseteq Range(d.states)

----------------------------------------------------------------------------
(* The codec: serialize_automaton and deserialize_automaton *)

NoData == [type |-> "none"]

\* key = f"{state},{symbol}"
KeyOf(p) == p[1] \o <<",">> \o p[2]

serialize_automaton(a) ==
    [type |-> a.type,
     alphabet |-> a.alphabet,
     states |-> a.states,
     initial |-> a.initial,
     final |-> a.final,
     transitions |->
        [k \in {KeyOf(p) : p \in DOMAIN a.transitions} |->
           a.transitions[CHOOSE p \in DOMAIN a.transitions : KeyOf(p) = k]]]

\* the keys on which 'state, symbol = key.split(",")' raises ValueError
MalformedKeys(data) == {k \in DOMAIN data.transitions : Len(Split(k, ",")) # 2}

DecodeKey(k) == <<Split(k, ",")[1], Split(k, ",")[2]>>

\* the definition deserialize_automaton hands to the constructor
deserialize_automaton(data) ==
    Definition(data.type, data.alphabet, data.states, data.initial, data.final,
      [p \in {DecodeKey(k) : k \in DOMAIN data.transitions} |->
         data.transitions[CHOOSE k \in DOMAIN data.transitions : DecodeKey(k) = p]])

----------------------------------------------------------------------------
(* The interactive testing loop and the engine under test, before they start *)

\* the last call the loop made on the engine object
NoCall == [op |-> "none", arg |-> <<>>]

NoSession ==
    [program |-> "none", typed |-> <<>>, n |-> 0, call |-> NoCall, said |-> <<>>]

NoAnswers == [asked |-> FALSE, nfa |-> FALSE, dfa |-> FALSE, squashed |-> FALSE]

\* no NFA has been constructed, converted or asked about a word
NoEngine ==
    [n |-> NoAutomaton, dfa |-> NoAutomaton, squashed |-> NoAutomaton,
     word |-> <<>>, answers |-> NoAnswers]

----------------------------------------------------------------------------
(* main *)

Init ==
    /\ pc = "start"
    /\ path = "none"
    /\ automaton_type = "none"
    /\ alphabet = <<>>
    /\ states = <<>>
    /\ initial = None
    /\ final_states = <<>>
    /\ transitions = EmptyDict
    /\ records = <<>>
    /\ dot_lines = <<>>
    /\ scan = ScanInit
    /\ processed_transitions = EmptyDict
    /\ automaton = NoAutomaton
    /\ saved = NoData
    /\ loaded = NoAutomaton
    /\ visualized = FALSE
    /\ session = NoSession
    /\ engine = NoEngine
    /\ error = NoError
    /\ exit_status = -1

flat_vars == <<automaton_type, alphabet, states, initial, final_states,
               transitions, records>>

dot_vars == <<dot_lines, scan, processed_transitions>>

\* sys.exit(1) after printing e to stderr
Exit(e) ==
    /\ pc' = "exit"
    /\ error' = e
    /\ exit_status' = 1

\* '--- Process Arguments ---' of the flat-record path
ProcessArguments ==
    /\ pc = "start"
    /\ \E type \in TypeArgs, init \in InitialArgs, final \in FinalArgs :
         /\ automaton_type' = type
         /\ alphabet' = StripAll(Split(AlphabetArg, ","))
         /\ states' = StripAll(Split(StatesArg, ","))
         /\ initial' = Strip(init)
         /\ final_states' = StripAll(Split(final, ","))
    /\ pc' = "check_initial"
    /\ path' = "flat"
    /\ UNCHANGED <<transitions, records, dot_vars, automaton, saved, loaded,
                   visualized, session, engine, error, exit_status>>

\* 'if initial not in states'
CheckInitial ==
    /\ pc = "check_initial"
    /\ IF initial \notin Range(states)
       THEN Exit(Err("InitialNotInStates", initial, <<>>))
       ELSE pc' = "check_final" /\ UNCHANGED <<error, exit_status>>
    /\ UNCHANGED <<path, flat_vars, dot_vars, automaton, saved, loaded, visualized, session, engine>>

\* Mutant: only the first final state is checked.
CheckFinal_FirstOnly ==
    /\ pc = "check_final"
    /\ IF final_states[1] \notin Range(states)
       THEN Exit(Err("FinalNotInStates", final_states[1], <<>>))
       ELSE pc' = "build" /\ UNCHANGED <<error, exit_status>>
    /\ UNCHANGED <<path, flat_vars, dot_vars, automaton, saved, loaded, visualized, session, engine>>

\* 'for state in final_states: if state not in states'
CheckFinal ==
    /\ pc = "check_final"
    /\ IF FirstNotIn(final_states, Range(states)) # None
       THEN Exit(Err("FinalNotInStates", FirstNotIn(final_states, Range(states)), <<>>))
       ELSE pc' = "build" /\ UNCHANGED <<error, exit_status>>
    /\ UNCHANGED <<path, flat_vars, dot_vars, automaton, saved, loaded, visualized, session, engine>>

\* Mutant: a record that fails a check is dropped and the loop goes on.
BuildStep_Skip(t, r) ==
    /\ records' = Append(records, t)
    /\ transitions' = r.transitions
    /\ UNCHANGED <<pc, error, exit_status>>
    /\ UNCHANGED <<path, automaton_type, alphabet, states, initial, final_states,
                   dot_vars, automaton, saved, loaded, visualized, session, engine>>

\* Mutant: the error of a record is printed but the loop goes on.
BuildStep_Continue(t, r) ==
    /\ records' = Append(records, t)
    /\ transitions' = r.transitions
    /\ IF r.error # NoError
       THEN error' = r.error /\ UNCHANGED <<pc, exit_status>>
       ELSE UNCHANGED <<pc, error, exit_status>>
    /\ UNCHANGED <<path, automaton_type, alphabet, states, initial, final_states,
                   dot_vars, automaton, saved, loaded, visualized, session, engine>>

\* the next record t of args.transitions goes through one loop iteration
BuildStep(t, r) ==
    /\ records' = Append(records, t)
    /\ transitions' = r.transitions
    /\ IF r.error # NoError
       THEN Exit(r.error)
       ELSE UNCHANGED <<pc, error, exit_status>>
    /\ UNCHANGED <<path, automaton_type, alphabet, states, initial, final_states,
                   dot_vars, automaton, saved, loaded, visualized, session, engine>>

BuildDfaRecord ==
    /\ pc = "build"
    /\ automaton_type = "dfa"
    /\ Len(records) < MaxRecords
    /\ \E t \in TransitionArgs : BuildStep(t, DfaRecord(transitions, t, states, alphabet))

BuildNfaRecord ==
    /\ pc = "build"
    /\ automaton_type = "nfa"
    /\ Len(records) < MaxRecords
    /\ \E t \in TransitionArgs : BuildStep(t, NfaRecord(transitions, t, states, alphabet))

\* args.transitions (nargs='+', at least one record) is exhausted
EndOfTransitions ==
    /\ pc = "build"
    /\ Len(records) >= 1
    /\ pc' = "create"
    /\ UNCHANGED <<path, flat_vars, dot_vars, automaton, saved, loaded, visualized, session, engine,
                   error, exit_status>>

\* '--- Create Automaton ---': DFA(...) or NFA(...)
CreateAutomaton ==
    /\ pc = "create"
    /\ LET d == Definition(automaton_type, alphabet, states, initial,
                           final_states, transitions) IN
       IF ValidDefinition(d)
       THEN /\ automaton' = d
            /\ pc' = "ready"
            /\ UNCHANGED <<error, exit_status>>
       ELSE /\ Exit(Err("ConstructionError", <<>>, <<>>))
            /\ UNCHANGED automaton
    /\ UNCHANGED <<path, flat_vars, dot_vars, saved, loaded, visualized, session, engine>>

\* args.dot_file is given: parse_dot_file starts
OpenDotFile ==
    /\ pc = "start"
    /\ pc' = "scan"
    /\ path' = "dot"
    /\ UNCHANGED <<flat_vars, dot_vars, automaton, saved, loaded, visualized, session, engine,
                   error, exit_status>>

\* one iteration of 'for line in lines' on the line raw, in branch Is
ScanStep(raw) ==
    /\ pc = "scan"
    /\ Len(dot_lines) < MaxLines
    /\ dot_lines' = Append(dot_lines, raw)
    /\ scan' = ScanLine(scan, raw)
    /\ UNCHANGED <<pc, path, flat_vars, processed_transitions, automaton, saved,
                   loaded, visualized, session, engine, error, exit_status>>

ScanDoubleCircleLine ==
    \E raw \in DotLines : IsDoubleCircleLine(Strip(raw)) /\ ScanStep(raw)

ScanCircleLine ==
    \E raw \in DotLines : IsCircleLine(Strip(raw)) /\ ScanStep(raw)

ScanTransitionLine ==
    \E raw \in DotLines : IsTransitionLine(Strip(raw)) /\ ScanStep(raw)

ScanInitialLine ==
    \E raw \in DotLines : IsInitialLine(Strip(raw)) /\ ScanStep(raw)

ScanOtherLine ==
    \E raw \in DotLines : IsOtherLine(Strip(raw)) /\ ScanStep(raw)

\* the lines are exhausted: 'Convert transition lists to tuples/single
\* values' and 'Ensure all states in transitions are in the states set'
Finalize ==
    /\ pc = "scan"
    /\ IF BadPairs(scan) # {}
       THEN /\ Exit(Err("InconsistentDeterminism", <<>>, <<>>))
            /\ UNCHANGED <<scan, processed_transitions>>
       ELSE /\ processed_transitions' = ProcessTransitions(scan)
            /\ scan' = [scan EXCEPT !.states =
                          @ \cup StatesOfTransitions(scan.automaton_type,
                                                     ProcessTransitions(scan))]
            /\ pc' = "construct"
            /\ UNCHANGED <<error, exit_status>>
    /\ UNCHANGED <<path, flat_vars, dot_lines, automaton, saved, loaded, visualized, session, engine>>

\* the definition parse_dot_file hands to DFA(...) or NFA(...)
DotDefinition ==
    Definition(scan.automaton_type, SeqOf(scan.alphabet), SeqOf(scan.states),
               scan.initial_state, SeqOf(scan.final_states), processed_transitions)

\* 'return DFA(...), "dfa"' or 'return NFA(...), "nfa"'; an exception of
\* the constructor is caught by 'except Exception' and ends in sys.exit(1)
Construct ==
    /\ pc = "construct"
    /\ IF ValidDefinition(DotDefinition)
       THEN /\ automaton' = DotDefinition
            /\ automaton_type' = scan.automaton_type
            /\ pc' = "ready"
            /\ UNCHANGED <<error, exit_status>>
       ELSE /\ Exit(Err("ConstructionError", <<>>, <<>>))
            /\ UNCHANGED <<automaton, automaton_type>>
    /\ UNCHANGED <<path, alphabet, states, initial, final_states, transitions,
                   records, dot_vars, saved, loaded, visualized, session, engine>>

\* '--- Save Automaton (if requested) ---'
SaveAutomaton ==
    /\ pc = "ready"
    /\ ~visualized
    /\ saved' = serialize_automaton(automaton)
    /\ pc' = "saved"
    /\ UNCHANGED <<path, flat_vars, dot_vars, automaton, loaded, visualized, session, engine,
                   error, exit_status>>

\* '--- Visualization (if not skipped) ---': visualize_automaton renders the
\* automaton main holds
VisualizeAutomaton ==
    /\ pc \in {"ready", "saved"}
    /\ ~visualized
    /\ automaton # NoAutomaton
    /\ visualized' = TRUE
    /\ UNCHANGED <<pc, path, flat_vars, dot_vars, automaton, saved, loaded,
                   session, engine, error, exit_status>>

\* a run with --load-from on the saved file
LoadAutomaton ==
    /\ pc = "saved"
    /\ IF MalformedKeys(saved) # {}
       THEN /\ Exit(Err("MalformedKey", CHOOSE k \in MalformedKeys(saved) : TRUE, <<>>))
            /\ UNCHANGED loaded
       ELSE IF ~ValidDefinition(deserialize_automaton(saved))
       THEN /\ Exit(Err("ConstructionError", <<>>, <<>>))
            /\ UNCHANGED loaded
       ELSE /\ loaded' = deserialize_automaton(saved)
            /\ pc' = "loaded"
            /\ UNCHANGED <<error, exit_status>>
    /\ UNCHANGED <<path, flat_vars, dot_vars, automaton, saved, visualized, session, engine>>

Next ==
    \/ ProcessArguments
    \/ CheckInitial
    \/ CheckFinal
    \/ BuildDfaRecord
    \/ BuildNfaRecord
    \/ EndOfTransitions
    \/ CreateAutomaton
    \/ OpenDotFile
    \/ ScanDoubleCircleLine
    \/ ScanCircleLine
    \/ ScanTransitionLine
    \/ ScanInitialLine
    \/ ScanOtherLine
    \/ Finalize
    \/ Construct
    \/ SaveAutomaton
    \/ VisualizeAutomaton
    \/ LoadAutomaton

Spec == Init /\ [][Next]_vars

----------------------------------------------------------------------------
(* main.py: the first command line front end.  Its arguments are split on   *)
(* commas without strip, its loops assign the table entry of a record.      *)

MainStatesArg == <<"q0", ",", "q1">>

\* One iteration of the 'dfa' loop of main.py.
MainDfaRecord(tr, t, sts, alph) ==
    LET parts == Split(t, ",") IN
    IF Len(parts) # 3
    THEN [transitions |-> tr, error |-> Err("MalformedRecord", <<>>, t)]
    ELSE IF \/ parts[1] \notin Range(sts)
            \/ parts[3] \notin Range(sts)
            \/ parts[2] \notin Range(alph)
    THEN [transitions |-> tr, error |-> Err("InvalidTransition", <<>>, t)]
    ELSE [transitions |-> DictSet(tr, <<parts[1], parts[2]>>, parts[3]),
          error |-> NoError]

\* One iteration of the 'nfa' loop of main.py.
MainNfaRecord(tr, t, sts, alph) ==
    LET parts == Split(t, ",")
        next_states == SubSeq(parts, 3, Len(parts))
    IN
    IF Len(parts) < 3
    THEN [transitions |-> tr, error |-> Err("MalformedRecord", <<>>, t)]
    ELSE IF parts[1] \notin Range(sts) \/ parts[2] \notin Range(alph)
    THEN [transitions |-> tr, error |-> Err("InvalidTransition", <<>>, t)]
    ELSE IF FirstNotIn(next_states, Range(sts)) # None
    THEN [transitions |-> tr,
          error |-> Err("InvalidNextState", FirstNotIn(next_states, Range(sts)), t)]
    ELSE [transitions |-> DictSet(tr, <<parts[1], parts[2]>>, next_states),
          error |-> NoError]

\* args = parser.parse_args() and the four assignments that follow
MainProcessArguments ==
    /\ pc = "start"
    /\ \E type \in TypeArgs, init \in InitialArgs, final \in FinalArgs :
         /\ automaton_type' = type
         /\ alphabet' = Split(AlphabetArg, ",")
         /\ states' = Split(MainStatesArg, ",")
         /\ initial' = init
         /\ final_states' = Split(final, ",")
    /\ pc' = "check_initial"
    /\ path' = "main"
    /\ UNCHANGED <<transitions, records, dot_vars, automaton, saved, loaded,
                   visualized, session, engine, error, exit_status>>

\* 'if initial not in states', the same statement as in main3-0.py
MainCheckInitial == path = "main" /\ CheckInitial

\* 'for state in final_states', the same statements as in main3-0.py
MainCheckFinal == path = "main" /\ CheckFinal

MainBuildDfaRecord ==
    /\ path = "main"
    /\ pc = "build"
    /\ automaton_type = "dfa"
    /\ Len(records) < MaxRecords
    /\ \E t \in TransitionArgs :
         BuildStep(t, MainDfaRecord(transitions, t, states, alphabet))

MainBuildNfaRecord ==
    /\ path = "main"
    /\ pc = "build"
    /\ automaton_type = "nfa"
    /\ Len(records) < MaxRecords
    /\ \E t \in TransitionArgs :
         BuildStep(t, MainNfaRecord(transitions, t, states, alphabet))

MainEndOfTransitions == path = "main" /\ EndOfTransitions

\* DFA(...) followed by the rendering of dfa.png, or NFA(...)
MainCreateAutomaton ==
    /\ path = "main"
    /\ pc = "create"
    /\ LET d == Definition(automaton_type, alphabet, states, initial,
                           final_states, transitions) IN
       IF ValidDefinition(d)
       THEN /\ automaton' = d
            /\ visualized' = (automaton_type = "dfa")
            /\ pc' = "ready"
            /\ UNCHANGED <<error, exit_status>>
       ELSE /\ Exit(Err("ConstructionError", <<>>, <<>>))
            /\ UNCHANGED <<automaton, visualized>>
    /\ UNCHANGED <<path, flat_vars, dot_vars, saved, loaded, session, engine>>

----------------------------------------------------------------------------
(* fsm_creator.py: the interactive creator *)

MaxEntries == 2

\* Mutant: a 'dfa' entry with several targets prints its error and then
\* stores the first target.
CreatorRecord_KeepsFirstTarget(type, tr, t, sts, alph) ==
    LET parts == Parts(Strip(t))
        from_state == parts[1]
        symbol == parts[2]
        to_states_input == SubSeq(parts, 3, Len(parts))
        key == <<from_state, symbol>>
    IN
    IF Len(parts) < 3
    THEN [transitions |-> tr, error |-> Err("MalformedRecord", <<>>, t)]
    ELSE IF from_state \notin Range(sts)
    THEN [transitions |-> tr, error |-> Err("UnknownState", from_state, t)]
    ELSE IF symbol \notin Range(alph)
    THEN [transitions |-> tr, error |-> Err("UnknownSymbol", symbol, t)]
    ELSE IF FirstNotIn(to_states_input, Range(sts)) # None
    THEN [transitions |-> tr,
          error |-> Err("UnknownState", FirstNotIn(to_states_input, Range(sts)), t)]
    ELSE IF type = "dfa"
    THEN [transitions |-> DictSet(tr, key, to_states_input[1]),
          error |-> IF Len(to_states_input) > 1
                    THEN Err("TooManyTargets", <<>>, t) ELSE NoError]
    ELSE IF key \in DOMAIN tr
    THEN [transitions |-> DictSet(tr, key, tr[key] \o to_states_input),
          error |-> NoError]
    ELSE [transitions |-> DictSet(tr, key, to_states_input), error |-> NoError]

\* One iteration of 'while True' on the entry t, which is not 'done': a
\* rejected entry prints its error and the loop continues.
CreatorRecord(type, tr, t, sts, alph) ==
    LET parts == Parts(Strip(t))
        from_state == parts[1]
        symbol == parts[2]
        to_states_input == SubSeq(parts, 3, Len(parts))
        key == <<from_state, symbol>>
    IN
    IF Len(parts) < 3
    THEN [transitions |-> tr, error |-> Err("MalformedRecord", <<>>, t)]
    ELSE IF from_state \notin Range(sts)
    THEN [transitions |-> tr, error |-> Err("UnknownState", from_state, t)]
    ELSE IF symbol \notin Range(alph)
    THEN [transitions |-> tr, error |-> Err("UnknownSymbol", symbol, t)]
    ELSE IF FirstNotIn(to_states_input, Range(sts)) # None
    THEN [transitions |-> tr,
          error |-> Err("UnknownState", FirstNotIn(to_states_input, Range(sts)), t)]
    ELSE IF type = "dfa"
    THEN IF Len(to_states_input) > 1
         THEN [transitions |-> tr, error |-> Err("TooManyTargets", <<>>, t)]
         ELSE [transitions |-> DictSet(tr, key, to_states_input[1]),
               error |-> NoError]
    ELSE IF key \in DOMAIN tr
    THEN [transitions |-> DictSet(tr, key, tr[key] \o to_states_input),
          error |-> NoError]
    ELSE [transitions |-> DictSet(tr, key, to_states_input), error |-> NoError]

\* Mutant: the key is written with a blank after the comma.
CreatorJson_BlankInKey(type, alph, sts, init, final, trans) ==
    [type |-> type, alphabet |-> alph, states |-> sts, initial |-> init,
     final |-> final,
     transitions |->
        [k \in {p[1] \o <<",", " ">> \o p[2] : p \in DOMAIN trans} |->
           trans[CHOOSE p \in DOMAIN trans : p[1] \o <<",", " ">> \o p[2] = k]]]

\* automaton_data with its transitions under the keys f"{k[0]},{k[1]}"
CreatorJson(type, alph, sts, init, final, trans) ==
    [type |-> type, alphabet |-> alph, states |-> sts, initial |-> init,
     final |-> final,
     transitions |->
        [k \in {KeyOf(p) : p \in DOMAIN trans} |->
           trans[CHOOSE p \in DOMAIN trans : KeyOf(p) = k]]]

\* the prompts for the type, the alphabet and the states
CreatorInputs ==
    /\ pc = "start"
    /\ \E type \in TypeArgs : automaton_type' = type
    /\ alphabet' = StripAll(Split(Strip(AlphabetArg), ","))
    /\ states' = StripAll(Split(Strip(StatesArg), ","))
    /\ pc' = "ask_initial"
    /\ path' = "creator"
    /\ UNCHANGED <<initial, final_states, transitions, records, dot_vars,
                   automaton, saved, loaded, visualized, session, engine, error, exit_status>>

\* the prompt for the initial state: get_input asks again until the answer
\* is one of the states
CreatorInitial ==
    /\ pc = "ask_initial"
    /\ \E init \in InitialArgs :
         IF Strip(init) \in Range(states)
         THEN /\ initial' = Strip(init)
              /\ pc' = "ask_final"
              /\ UNCHANGED error
         ELSE /\ error' = Err("InitialNotInStates", Strip(init), <<>>)
              /\ UNCHANGED <<pc, initial>>
    /\ UNCHANGED <<path, automaton_type, alphabet, states, final_states,
                   transitions, records, dot_vars, automaton, saved, loaded,
                   visualized, session, engine, exit_status>>

\* the prompt for the final states and the loop that checks them
CreatorFinal ==
    /\ pc = "ask_final"
    /\ \E final \in FinalArgs :
         LET fs == StripAll(Split(Strip(final), ",")) IN
         /\ final_states' = fs
         /\ IF FirstNotIn(fs, Range(states)) # None
            THEN Exit(Err("FinalNotInStates", FirstNotIn(fs, Range(states)), <<>>))
            ELSE pc' = "enter" /\ UNCHANGED <<error, exit_status>>
    /\ UNCHANGED <<path, automaton_type, alphabet, states, initial, transitions,
                   records, dot_vars, automaton, saved, loaded, visualized, session, engine>>

\* an entry other than 'done' at the prompt 'Enter transition: '
CreatorEntry ==
    /\ pc = "enter"
    /\ Len(records) < MaxEntries
    /\ \E t \in TransitionArgs :
         LET r == CreatorRecord(automaton_type, transitions, t, states, alphabet) IN
         /\ records' = Append(records, t)
         /\ transitions' = r.transitions
         /\ error' = r.error
    /\ UNCHANGED <<pc, path, automaton_type, alphabet, states, initial,
                   final_states, dot_vars, automaton, saved, loaded, visualized, session, engine,
                   exit_status>>

\* 'done' at the prompt: the loop is left
CreatorDone ==
    /\ pc = "enter"
    /\ pc' = "ask_dot"
    /\ UNCHANGED <<path, flat_vars, dot_vars, automaton, saved, loaded, visualized, session, engine,
                   error, exit_status>>

\* the prompt for the picture's file name, then create_dot_file
CreatorRender ==
    /\ pc = "ask_dot"
    /\ visualized' = TRUE
    /\ pc' = "ask_json"
    /\ UNCHANGED <<path, flat_vars, dot_vars, automaton, saved, loaded,
                   session, engine, error, exit_status>>

\* the prompt for the JSON file name, answered with a name: json.dump
CreatorSave ==
    /\ pc = "ask_json"
    /\ saved' = CreatorJson(automaton_type, alphabet, states, initial,
                            final_states, transitions)
    /\ pc' = "ask_launch"
    /\ UNCHANGED <<path, flat_vars, dot_vars, automaton, loaded, visualized, session, engine,
                   error, exit_status>>

\* the prompt for the JSON file name, left blank
CreatorSkipSave ==
    /\ pc = "ask_json"
    /\ pc' = "ask_launch"
    /\ UNCHANGED <<path, flat_vars, dot_vars, automaton, saved, loaded, visualized, session, engine,
                   error, exit_status>>

\* 'yes' with a saved file: main3-0.py is run with --load-from on it
CreatorLaunch ==
    /\ pc = "ask_launch"
    /\ saved # NoData
    /\ pc' = "saved"
    /\ UNCHANGED <<path, flat_vars, dot_vars, automaton, saved, loaded, visualized, session, engine,
                   error, exit_status>>

\* 'no', or 'yes' without a saved file: '--- FSM Creation Complete ---'
CreatorComplete ==
    /\ pc = "ask_launch"
    /\ pc' = "complete"
    /\ exit_status' = 0
    /\ UNCHANGED <<path, flat_vars, dot_vars, automaton, saved, loaded, visualized, session, engine,
                   error>>

NextBuilders ==
    \/ MainProcessArguments
    \/ MainCheckInitial
    \/ MainCheckFinal
    \/ MainBuildDfaRecord
    \/ MainBuildNfaRecord
    \/ MainEndOfTransitions
    \/ MainCreateAutomaton
    \/ CreatorInputs
    \/ CreatorInitial
    \/ CreatorFinal
    \/ CreatorEntry
    \/ CreatorDone
    \/ CreatorRender
    \/ CreatorSave
    \/ CreatorSkipSave
    \/ CreatorLaunch
    \/ CreatorComplete
    \/ LoadAutomaton

SpecBuilders == Init /\ [][NextBuilders]_vars

----------------------------------------------------------------------------
(* main: the interactive testing loop of main3-0.py (with the step-by-step
   branch) and of main2-0.py and main_improved.py (without it).  What the
   user types is a string of characters, one lexeme per character. *)

UpperCase == <<"A", "B", "C", "D", "E", "F", "G", "H", "I", "J", "K", "L", "M",
               "N", "O", "P", "Q", "R", "S", "T", "U", "V", "W", "X", "Y", "Z">>

LowerCase == <<"a", "b", "c", "d", "e", "f", "g", "h", "i", "j", "k", "l", "m",
               "n", "o", "p", "q", "r", "s", "t", "u", "v", "w", "x", "y", "z">>

\* str.lower()
Lower(s) ==
    [i \in 1..Len(s) |->
       IF \E j \in 1..Len(UpperCase) : UpperCase[j] = s[i]
       THEN LowerCase[CHOOSE j \in 1..Len(UpperCase) : UpperCase[j] = s[i]]
       ELSE s[i]]

\* tuple(user_input): one symbol per character
Characters(s) == [i \in 1..Len(s) |-> <<s[i]>>]

\* input_symbols = tuple(user_input.split(',')) if ',' in user_input
\*                 else tuple(user_input)
InputSymbols(user_input) ==
    IF Contains(user_input, ",") THEN Split(user_input, ",")
    ELSE Characters(user_input)

\* Mutant: only the first symbol of the input is looked up in the alphabet.
InvalidSymbols_FirstOnly(input_symbols, alph) ==
    SelectSeq(SubSeq(input_symbols, 1, 1), LAMBDA s : s \notin Range(alph))

\* invalid_symbols = [s for s in input_symbols if s not in automaton.alphabet]
InvalidSymbols(input_symbols, alph) ==
    SelectSeq(input_symbols, LAMBDA s : s \notin Range(alph))

\* Mutant: only the lower-case spelling ends the session.
IsExit_CaseSensitive(user_input) == user_input = <<"e", "x", "i", "t">>

\* user_input.lower() == 'exit'
IsExit(user_input) == Lower(user_input) = <<"e", "x", "i", "t">>

\* user_input.lower() == 'step'
IsStep(user_input) == Lower(user_input) = <<"s", "t", "e", "p">>

\* step_input.lower() != 'done', negated
IsDone(step_input) == Lower(step_input) = <<"d", "o", "n", "e">>

\* what session.typed holds when input() raised EOFError
EndOfInput == <<"EOF">>

SessionPrograms == {"main3-0.py", "main2-0.py", "main_improved.py"}

\* the command lines whose automaton the sessions test
SessionCommandLines ==
    { [type |-> "dfa", alphabet |-> <<"a", ",", "b">>,
       states |-> <<"q0", ",", "q1">>, initial |-> <<"q0">>,
       final |-> <<"q1">>,
       records |-> << <<"q0", ",", "a", ",", "q1">>,
                      <<"q1", ",", "b", ",", "q0">> >>],
      [type |-> "nfa", alphabet |-> <<"s", ",", "t", ",", "e", ",", "p">>,
       states |-> <<"q0", ",", "q1">>, initial |-> <<"q0">>,
       final |-> <<"q1">>,
       records |-> << <<"q0", ",", "s", ",", "q0", ",", "q1">>,
                      <<"q1", ",", "t", ",", "q1">> >>],
      [type |-> "dfa",
       alphabet |-> <<"s", ",", "t", ",", "e", ",", "p", ",", "e", "x", "i", "t">>,
       states |-> <<"q0", ",", "q1">>, initial |-> <<"q0">>,
       final |-> <<"q1">>,
       records |-> << <<"q0", ",", "s", ",", "q1">> >>] }

\* what the user may type at either prompt
SessionInputs ==
    { <<"e", "x", "i", "t">>,
      <<" ", "E", "x", "i", "t">>,
      <<>>,
      <<"s", "t", "e", "p">>,
      <<"S", "t", "e", "p">>,
      <<"d", "o", "n", "e">>,
      <<"D", "O", "N", "E", " ">>,
      <<"a", "b">>,
      <<"a", ",", "b">>,
      <<"a", "z">>,
      <<"a", ",">>,
      <<"p", "e", "t">>,
      <<"s">>,
      <<" ", "a">> }

\* the transition table the flat-record loop builds from the records recs
RECURSIVE FlatTable(_, _, _, _, _)
FlatTable(type, recs, tr, sts, alph) ==
    IF recs = <<>> THEN tr
    ELSE FlatTable(type, Tail(recs),
                   (IF type = "dfa" THEN DfaRecord(tr, Head(recs), sts, alph)
                    ELSE NfaRecord(tr, Head(recs), sts, alph)).transitions,
                   sts, alph)

\* main has built the automaton of a command line and printed
\* '--- Interactive Testing ---'
SessionInit ==
    /\ \E c \in SessionCommandLines, program \in SessionPrograms :
         /\ automaton_type = c.type
         /\ alphabet = StripAll(Split(c.alphabet, ","))
         /\ states = StripAll(Split(c.states, ","))
         /\ initial = Strip(c.initial)
         /\ final_states = StripAll(Split(c.final, ","))
         /\ records = c.records
         /\ transitions = FlatTable(c.type, c.records, EmptyDict, states, alphabet)
         /\ automaton = Definition(automaton_type, alphabet, states, initial,
                                   final_states, transitions)
         /\ session = [NoSession EXCEPT !.program = program,
                                        !.said = <<"Interactive Testing">>]
    /\ pc = "prompt"
    /\ path = "flat"
    /\ dot_lines = <<>>
    /\ scan = ScanInit
    /\ processed_transitions = EmptyDict
    /\ saved = NoData
    /\ loaded = NoAutomaton
    /\ visualized = FALSE
    /\ engine = NoEngine
    /\ error = NoError
    /\ exit_status = -1

\* the alphabet the loop validates against: automaton.alphabet, and the
\* local alphabet in main_improved.py
SessionAlphabet ==
    IF session.program = "main_improved.py" THEN alphabet ELSE automaton.alphabet

\* input(...) returned raw; the loop handled it, made the engine call, printed
\* said and went to position to
Handled(raw, call, said, to) ==
    /\ session' = [session EXCEPT !.typed = raw, !.n = @ + 1, !.call = call,
                                  !.said = said]
    /\ pc' = to
    /\ UNCHANGED <<path, flat_vars, dot_vars, automaton, saved, loaded,
                   visualized, engine, error, exit_status>>

AtPrompt == pc = "prompt" /\ session.n < MaxInputs

AtStepPrompt == pc = "step_prompt" /\ session.n < MaxInputs

\* 'if user_input.lower() == "exit": break', then print("\nGoodbye!")
SessionExit ==
    /\ AtPrompt
    /\ \E raw \in SessionInputs :
         /\ IsExit(Strip(raw))
         /\ Handled(raw, NoCall, <<"Goodbye!">>, "goodbye")

\* 'if not user_input: continue'
SessionEmpty ==
    /\ AtPrompt
    /\ \E raw \in SessionInputs :
         /\ ~IsExit(Strip(raw))
         /\ Strip(raw) = <<>>
         /\ Handled(raw, NoCall, <<>>, "prompt")

\* 'if invalid_symbols: print(...); continue'
SessionInvalid ==
    /\ AtPrompt
    /\ \E raw \in SessionInputs :
         /\ ~IsExit(Strip(raw))
         /\ Strip(raw) # <<>>
         /\ InvalidSymbols(InputSymbols(Strip(raw)), SessionAlphabet) # <<>>
         /\ Handled(raw, NoCall, <<"Error: Input contains symbols not in the defined alphabet">>,
                    "prompt")

\* main3-0.py, 'if user_input.lower() == "step"': automaton.transducer() and
\* the first 'Enter symbol to process' prompt
SessionStep ==
    /\ AtPrompt
    /\ session.program = "main3-0.py"
    /\ \E raw \in SessionInputs :
         /\ ~IsExit(Strip(raw))
         /\ Strip(raw) # <<>>
         /\ InvalidSymbols(InputSymbols(Strip(raw)), SessionAlphabet) = <<>>
         /\ IsStep(Strip(raw))
         /\ Handled(raw, [op |-> "transducer", arg |-> <<>>],
                    <<"Step-by-Step Execution">>, "step_prompt")

\* automaton.accepts(input_symbols): the engine answers, or raises and the
\* 'except Exception' clause leaves the loop
SessionWord ==
    /\ AtPrompt
    /\ \E raw \in SessionInputs :
         /\ ~IsExit(Strip(raw))
         /\ Strip(raw) # <<>>
         /\ InvalidSymbols(InputSymbols(Strip(raw)), SessionAlphabet) = <<>>
         /\ session.program = "main3-0.py" => ~IsStep(Strip(raw))
         /\ \/ \E answer \in {"  -> Accepted", "  -> Rejected"} :
                 Handled(raw, [op |-> "accepts", arg |-> InputSymbols(Strip(raw))],
                         <<answer>>, "prompt")
            \/ Handled(raw, [op |-> "accepts", arg |-> InputSymbols(Strip(raw))],
                       <<"An unexpected error occurred", "Goodbye!">>, "goodbye")

\* input() raises EOFError at either prompt: 'except (EOFError,
\* KeyboardInterrupt): break', then print("\nGoodbye!")
SessionEOF ==
    /\ pc \in {"prompt", "step_prompt"}
    /\ session' = [session EXCEPT !.typed = EndOfInput, !.call = NoCall,
                                  !.said = <<"Goodbye!">>]
    /\ pc' = "goodbye"
    /\ UNCHANGED <<path, flat_vars, dot_vars, automaton, saved, loaded,
                   visualized, engine, error, exit_status>>

\* the step loop ends: 'while step_input.lower() != "done"'
StepDone ==
    /\ AtStepPrompt
    /\ \E raw \in SessionInputs :
         /\ IsDone(Strip(raw))
         /\ Handled(raw, NoCall, <<"End Step-by-Step Execution">>, "prompt")

\* 'if step_input not in automaton.alphabet: print(...)'
StepInvalid ==
    /\ AtStepPrompt
    /\ \E raw \in SessionInputs :
         /\ ~IsDone(Strip(raw))
         /\ Strip(raw) \notin Range(automaton.alphabet)
         /\ Handled(raw, NoCall, <<"Error: Symbol not in alphabet">>, "step_prompt")

\* current_transducer.push(step_input): the engine moves, or raises and the
\* 'except Exception' clause leaves the loop
StepPush ==
    /\ AtStepPrompt
    /\ \E raw \in SessionInputs :
         /\ ~IsDone(Strip(raw))
         /\ Strip(raw) \in Range(automaton.alphabet)
         /\ \/ Handled(raw, [op |-> "push", arg |-> <<Strip(raw)>>],
                       <<"Processed">>, "step_prompt")
            \/ Handled(raw, [op |-> "push", arg |-> <<Strip(raw)>>],
                       <<"An unexpected error occurred", "Goodbye!">>, "goodbye")

NextSession ==
    \/ SessionExit
    \/ SessionEmpty
    \/ SessionInvalid
    \/ SessionStep
    \/ SessionWord
    \/ SessionEOF
    \/ StepDone
    \/ StepInvalid
    \/ StepPush

SpecSession == SessionInit /\ [][NextSession]_vars

----------------------------------------------------------------------------

(* The engine python_fsa: accepts, to_dfa and squash, as the specification
   describes them (acceptance testing, subset construction from
   nondeterministic to deterministic form, minimization), driven the way
   test_nfa_to_dfa drives them. *)

\* the states an NFA can be in after reading x in one of the states S
Move(n, S, x) ==
    UNION { Range(n.transitions[<<q, x>>]) :
              q \in {r \in S : <<r, x>> \in DOMAIN n.transitions} }

RECURSIVE NfaRun(_, _, _)
NfaRun(n, S, w) ==
    IF w = <<>> THEN S ELSE NfaRun(n, Move(n, S, Head(w)), Tail(w))

\* NFA.accepts(w): some run on w ends in a final state
NfaAccepts(n, w) == NfaRun(n, {n.initial}, w) \cap Range(n.final) # {}

\* the sets of states the subset construction reaches
RECURSIVE Subsets(_, _, _)
Subsets(n, seen, frontier) ==
    IF frontier = {} THEN seen
    ELSE LET next == {Move(n, S, x) : S \in frontier, x \in Range(n.alphabet)}
                       \ seen IN
         Subsets(n, seen \cup next, next)

\* Mutant: a set of states is final only when all its members are.
to_dfa_AllFinal(n) ==
    LET Q == Subsets(n, {{n.initial}}, {{n.initial}}) IN
    Definition("dfa", n.alphabet, SeqOf(Q), {n.initial},
               SeqOf({S \in Q : S \subseteq Range(n.final)}),
               [p \in Q \X Range(n.alphabet) |-> Move(n, p[1], p[2])])

\* NFA.to_dfa(): the subset construction; the states of the result are sets
\* of states of n
to_dfa(n) ==
    LET Q == Subsets(n, {{n.initial}}, {{n.initial}}) IN
    Definition("dfa", n.alphabet, SeqOf(Q), {n.initial},
               SeqOf({S \in Q : S \cap Range(n.final) # {}}),
               [p \in Q \X Range(n.alphabet) |-> Move(n, p[1], p[2])])

\* the run of a DFA on w from q: where it ends, or that it got stuck
RECURSIVE DfaRun(_, _, _)
DfaRun(d, q, w) ==
    IF w = <<>> THEN [stuck |-> FALSE, state |-> q]
    ELSE IF <<q, Head(w)>> \notin DOMAIN d.transitions
    THEN [stuck |-> TRUE, state |-> q]
    ELSE DfaRun(d, d.transitions[<<q, Head(w)>>], Tail(w))

\* DFA.accepts(w)
DfaAccepts(d, w) ==
    LET r == DfaRun(d, d.initial, w) IN
    ~r.stuck /\ r.state \in Range(d.final)

\* the block of the partition P that holds q
Block(P, q) == CHOOSE B \in P : q \in B

\* for each symbol, the block the transition of q leads to
Signature(d, P, q) ==
    [x \in Range(d.alphabet) |->
       IF <<q, x>> \in DOMAIN d.transitions
       THEN Block(P, d.transitions[<<q, x>>]) ELSE {}]

\* one round of partition refinement
Refine(d, P) ==
    UNION { { {q \in B : Signature(d, P, q) = Signature(d, P, p)} : p \in B } :
            B \in P }

RECURSIVE Stable(_, _)
Stable(d, P) == IF Refine(d, P) = P THEN P ELSE Stable(d, Refine(d, P))

\* DFA.squash(): the reduced automaton; its states are the classes of
\* equivalent states of d
squash(d) ==
    LET Q == Range(d.states)
        F == Range(d.final)
        P == Stable(d, {F, Q \ F} \ {{}})
        rep(B) == CHOOSE q \in B : TRUE
    IN  Definition("dfa", d.alphabet, SeqOf(P), Block(P, d.initial),
                   SeqOf({B \in P : B \cap F # {}}),
                   [p \in {r \in P \X Range(d.alphabet) :
                             <<rep(r[1]), r[2]>> \in DOMAIN d.transitions} |->
                      Block(P, d.transitions[<<rep(p[1]), p[2]>>])])

EngineAlphabet == << <<"0">>, <<"1">> >>

EngineStates == << <<"a">>, <<"b">> >>

\* every NFA over two states and two symbols: each (state, symbol) pair has
\* any set of targets, or no entry, and any set of states is final
EngineNfas ==
    { Definition("nfa", EngineAlphabet, EngineStates, <<"a">>, SeqOf(F),
                 [p \in {r \in Range(EngineStates) \X Range(EngineAlphabet) :
                           f[r] # {}} |-> SeqOf(f[p])]) :
        f \in [Range(EngineStates) \X Range(EngineAlphabet) ->
                 SUBSET Range(EngineStates)],
        F \in SUBSET Range(EngineStates) }

\* the NFA of test_nfa_to_dfa: the second symbol from the end is 1
TestNfa ==
    Definition("nfa", EngineAlphabet, << <<"a">>, <<"b">>, <<"c">> >>, <<"a">>,
               << <<"c">> >>,
               (<< <<"a">>, <<"0">> >> :> << <<"a">> >>) @@
               (<< <<"a">>, <<"1">> >> :> << <<"a">>, <<"b">> >>) @@
               (<< <<"b">>, <<"0">> >> :> << <<"c">> >>) @@
               (<< <<"b">>, <<"1">> >> :> << <<"c">> >>))

\* the words test_nfa_to_dfa asks about, with the answers it asserts
TestAnswers ==
    (<< <<"0">>, <<"1">>, <<"1">>, <<"0">> >> :> TRUE) @@
    (<< <<"0">>, <<"0">>, <<"0">>, <<"1">> >> :> FALSE) @@
    (<< <<"1">>, <<"1">> >> :> TRUE) @@
    (<< <<"0">>, <<"0">> >> :> FALSE) @@
    (<< <<"1">> >> :> FALSE) @@
    (<< >> :> FALSE)

\* the words over the engine's alphabet of length at most MaxWord
EngineWords ==
    UNION {[1..k -> Range(EngineAlphabet)] : k \in 0..MaxWord}
      \cup DOMAIN TestAnswers

\* a test has constructed its NFA
EngineInit ==
    /\ pc = "engine"
    /\ path = "none"
    /\ automaton_type = "none"
    /\ alphabet = <<>>
    /\ states = <<>>
    /\ initial = None
    /\ final_states = <<>>
    /\ transitions = EmptyDict
    /\ records = <<>>
    /\ dot_lines = <<>>
    /\ scan = ScanInit
    /\ processed_transitions = EmptyDict
    /\ automaton = NoAutomaton
    /\ saved = NoData
    /\ loaded = NoAutomaton
    /\ visualized = FALSE
    /\ session = NoSession
    /\ \E n \in EngineNfas \cup {TestNfa} : engine = [NoEngine EXCEPT !.n = n]
    /\ error = NoError
    /\ exit_status = -1

engine_unchanged ==
    UNCHANGED <<pc, path, flat_vars, dot_vars, automaton, saved, loaded,
                visualized, session, error, exit_status>>

\* dfa_from_nfa = nfa.to_dfa()
EngineToDfa ==
    /\ pc = "engine"
    /\ engine.dfa = NoAutomaton
    /\ engine' = [engine EXCEPT !.dfa = to_dfa(engine.n)]
    /\ engine_unchanged

\* squashed_dfa = dfa_from_nfa.squash()
EngineSquash ==
    /\ pc = "engine"
    /\ engine.dfa # NoAutomaton
    /\ engine.squashed = NoAutomaton
    /\ engine' = [engine EXCEPT !.squashed = squash(engine.dfa)]
    /\ engine_unchanged

\* accepts(w) is asked of the NFA, of its DFA and of the squashed DFA
EngineAccepts ==
    /\ pc = "engine"
    /\ engine.squashed # NoAutomaton
    /\ \E w \in EngineWords :
         engine' = [engine EXCEPT
                      !.word = w,
                      !.answers = [asked |-> TRUE,
                                   nfa |-> NfaAccepts(engine.n, w),
                                   dfa |-> DfaAccepts(engine.dfa, w),
                                   squashed |-> DfaAccepts(engine.squashed, w)]]
    /\ engine_unchanged

NextEngine ==
    \/ EngineToDfa
    \/ EngineSquash
    \/ EngineAccepts

SpecEngine == EngineInit /\ [][NextEngine]_vars

----------------------------------------------------------------------------

(* Properties of the flat-record build *)

\* the (state, symbol) pair and the target list a record names
PairOf(t) == <<Parts(t)[1], Parts(t)[2]>>

TargetsOf(t) == SubSeq(Parts(t), 3, Len(Parts(t)))

\* a record of n fields (n = 0: three or more) whose state, symbol and
\* targets are all declared
Declared(t, n) ==
    /\ IF n = 0 THEN Len(Parts(t)) >= 3 ELSE Len(Parts(t)) = n
    /\ Parts(t)[1] \in Range(states)
    /\ Parts(t)[2] \in Range(alphabet)
    /\ Range(TargetsOf(t)) \subseteq Range(states)

\* some pair is named by two of the records
HasDuplicatePair(rs) ==
    \E i, j \in 1..Len(rs) : i < j /\ PairOf(rs[i]) = PairOf(rs[j])

\* the index of the first record that names the pair p
FirstWith(rs, p) ==
    CHOOSE i \in 1..Len(rs) :
        /\ PairOf(rs[i]) = p
        /\ \A j \in 1..(i - 1) : PairOf(rs[j]) # p

Orderings(n) == {f \in [1..n -> 1..n] : \A i, j \in 1..n : f[i] = f[j] => i = j}

Permuted(rs, f) == [i \in 1..Len(rs) |-> rs[f[i]]]

InFlatBuild == path = "flat" /\ records # <<>>

\* C1: in the 'dfa' build over declared 3-field records, without a repeated
\* (state, symbol) pair the build never fails and the table maps each pair
\* to the target of its record (and this table is the one the automaton is
\* created with); once a pair is repeated the build has failed with the
\* duplicate-transition error, exit status 1, and every pair still maps to
\* the target of its first record.
C1_DfaBuildUniquePairs ==
    (/\ InFlatBuild
     /\ automaton_type = "dfa"
     /\ \A i \in 1..Len(records) : Declared(records[i], 3))
    => /\ DOMAIN transitions = {PairOf(records[i]) : i \in 1..Len(records)}
       /\ \A p \in DOMAIN transitions :
            transitions[p] = TargetsOf(records[FirstWith(records, p)])[1]
       /\ ~HasDuplicatePair(records) =>
            /\ pc # "exit"
            /\ error = NoError
            /\ pc = "ready" => automaton.transitions = transitions
       /\ HasDuplicatePair(records) =>
            /\ pc = "exit"
            /\ exit_status = 1
            /\ error.kind = "DuplicateTransition"
            /\ error.record = records[Len(records)]
            /\ automaton = NoAutomaton

\* C1 witness: a build that failed on a repeated pair whose second record
\* names another target than the first.
C1_Witness ==
    /\ InFlatBuild
    /\ automaton_type = "dfa"
    /\ pc = "exit"
    /\ error.kind = "DuplicateTransition"
    /\ Len(records) = 3
    /\ PairOf(records[3]) = PairOf(records[1])
    /\ TargetsOf(records[3]) # TargetsOf(records[1])
    /\ transitions[PairOf(records[1])] = TargetsOf(records[1])[1]

\* C2: in the 'nfa' build, the set of targets stored for a pair is the union
\* of the target lists of all records naming the pair, and every ordering of
\* the same records builds the same set for every pair (compared after each
\* record of the loop: the table does not change once the loop is left).
C2_NfaBuildUnion ==
    (/\ InFlatBuild
     /\ automaton_type = "nfa"
     /\ pc # "exit")
    => /\ DOMAIN transitions = {PairOf(records[i]) : i \in 1..Len(records)}
       /\ \A p \in DOMAIN transitions :
            Range(transitions[p]) =
              UNION {Range(TargetsOf(records[i])) :
                       i \in {j \in 1..Len(records) : PairOf(records[j]) = p}}
       /\ pc = "build" =>
          \A f \in Orderings(Len(records)) :
            LET b == BuildTransitions("nfa", Permuted(records, f), states, alphabet) IN
            /\ b.error = NoError
            /\ DOMAIN b.transitions = DOMAIN transitions
            /\ \A p \in DOMAIN transitions :
                 Range(b.transitions[p]) = Range(transitions[p])

\* C2 witness: an automaton created from records of which two name the same
\* pair with different targets.
C2_Witness ==
    /\ InFlatBuild
    /\ automaton_type = "nfa"
    /\ pc = "ready"
    /\ \E i, j \in 1..Len(records) :
         /\ i < j
         /\ PairOf(records[i]) = PairOf(records[j])
         /\ Range(TargetsOf(records[i])) # Range(TargetsOf(records[j]))
         /\ Cardinality(Range(automaton.transitions[PairOf(records[i])])) = 2

\* the identifiers of a record that are not declared
UnknownStates(t) == (Range(TargetsOf(t)) \cup {Parts(t)[1]}) \ Range(states)

UnknownSymbols(t) == {Parts(t)[2]} \ Range(alphabet)

WellShaped(t) ==
    IF automaton_type = "dfa" THEN Len(Parts(t)) = 3 ELSE Len(Parts(t)) >= 3

----------------------------------------------------------------------------
(* Properties of parse_dot_file *)

\* the edges (source, symbol, target) written in the lines of a text
EdgesOfLine(raw) ==
    IF IsTransitionLine(Strip(raw))
    THEN LET e == EdgeOf(Strip(raw)) IN
         {<<e.from_state, e.symbols[i], e.to_state>> : i \in 1..Len(e.symbols)}
    ELSE {}

TextEdges(lines) == UNION {EdgesOfLine(lines[i]) : i \in 1..Len(lines)}

\* the (source, symbol) pairs of a set of edges
PairsOf(edges) == {<<e[1], e[2]>> : e \in edges}

\* the distinct targets a set of edges gives the pair p
TargetsIn(edges, p) == {e[3] : e \in {x \in edges : <<x[1], x[2]>> = p}}

TextPairs(lines) == PairsOf(TextEdges(lines))

\* the distinct targets the text gives the pair p
TextTargets(lines, p) == TargetsIn(TextEdges(lines), p)

HasStartLine(lines) == \E i \in 1..Len(lines) : IsInitialLine(Strip(lines[i]))

\* the scan and the finalization are over (the definition went to the engine)
Reconstructed == path = "dot" /\ pc \in {"construct", "ready", "saved", "loaded"}

\* C4 (as claimed): a text in which every (source, symbol) pair has exactly
\* one distinct target is classified 'dfa' and stores that target for the
\* pair, also when an edge line is repeated or a label repeats a symbol.
C4_SingleTargetIsDfa ==
    (/\ Reconstructed
     /\ \A p \in TextPairs(dot_lines) : Cardinality(TextTargets(dot_lines, p)) = 1)
    => /\ scan.automaton_type = "dfa"
       /\ DOMAIN processed_transitions = TextPairs(dot_lines)
       /\ \A p \in TextPairs(dot_lines) :
            TextTargets(dot_lines, p) = {processed_transitions[p]}

\* C5: a text in which some (source, symbol) pair has two or more distinct
\* targets is classified 'nfa', from the line of the second target on and
\* wherever the two edges stand in the text; the automaton returned is an
\* NFA.
C5_TwoTargetsIsNfa ==
    (/\ path = "dot"
     /\ LET edges == TextEdges(dot_lines) IN
        \E p \in PairsOf(edges) : Cardinality(TargetsIn(edges, p)) >= 2)
    => /\ scan.automaton_type = "nfa"
       /\ pc \in {"ready", "saved", "loaded"} =>
            automaton.type = "nfa" /\ automaton_type = "nfa"

\* C5 witness: a reconstructed text of three lines whose first and last
\* lines give one pair two targets, with another line between them.
C5_Witness ==
    /\ path = "dot"
    /\ pc = "ready"
    /\ Len(dot_lines) = 3
    /\ \E e1 \in EdgesOfLine(dot_lines[1]), e3 \in EdgesOfLine(dot_lines[3]) :
         e1[1] = e3[1] /\ e1[2] = e3[2] /\ e1[3] # e3[3]
    /\ EdgesOfLine(dot_lines[2]) = {}
    /\ automaton.type = "nfa"

\* C6: when the text is reconstructed as 'nfa', the keys of the transition
\* map are the (source, symbol) pairs of the text, and the targets stored
\* for a key are exactly the distinct targets of the edges with that source
\* and symbol, each once.
C6_NfaTargetsExact ==
    (Reconstructed /\ scan.automaton_type = "nfa")
    => LET edges == TextEdges(dot_lines) IN
       /\ DOMAIN processed_transitions = PairsOf(edges)
       /\ \A p \in DOMAIN processed_transitions :
            /\ Range(processed_transitions[p]) = TargetsIn(edges, p)
            /\ Len(processed_transitions[p]) = Cardinality(TargetsIn(edges, p))

\* C6 witness: a pair whose edge is written twice besides an edge to another
\* target, stored with its two targets.
C6_Witness ==
    /\ Reconstructed
    /\ scan.automaton_type = "nfa"
    /\ \E p \in DOMAIN processed_transitions :
         /\ Len(scan.transitions[p]) = 3
         /\ Len(processed_transitions[p]) = 2

\* C8 (as claimed): a text without a line starting with 'null ->' makes the
\* reconstruction fail with a missing-initial-state error: it never gets to
\* hand a definition to the engine.
C8_MissingInitialFails ==
    (/\ path = "dot"
     /\ pc # "scan"
     /\ ~HasStartLine(dot_lines))
    => pc = "exit" /\ error.kind = "MissingInitialState"

\* C9 (as claimed): the sentinel is never a state of the reconstruction and
\* never the source of an entry of the transition map.
C9_SentinelNeverAState ==
    path = "dot" =>
      /\ <<"null">> \notin scan.states
      /\ \A p \in DOMAIN scan.transitions : p[1] # <<"null">>

\* what the reconstruction of a text yields: the scan and the finalization
Reconstruction(lines) ==
    LET acc == ScanLines(lines) IN
    [automaton_type |-> acc.automaton_type,
     states |-> acc.states \cup StatesOfTransitions(acc.automaton_type,
                                                     ProcessTransitions(acc)),
     alphabet |-> acc.alphabet,
     initial_state |-> acc.initial_state,
     final_states |-> acc.final_states,
     transitions |-> ProcessTransitions(acc)]

\* C10 (as claimed): every permutation of the lines of a text is
\* reconstructed to the same kind, states, alphabet, initial state, final
\* states and transition map.
C10_LineOrderIrrelevant ==
    Reconstructed =>
      \A f \in Orderings(Len(dot_lines)) :
        Reconstruction(Permuted(dot_lines, f)) = Reconstruction(dot_lines)

----------------------------------------------------------------------------
(* Properties of the codec *)

\* the (state, symbol) -> set of targets mapping of a definition
Behaviour(d) == [p \in DOMAIN d.transitions |-> Targets(d, p)]

SameDefinition(d, e) ==
    /\ d.type = e.type
    /\ Range(d.states) = Range(e.states)
    /\ Range(d.alphabet) = Range(e.alphabet)
    /\ d.initial = e.initial
    /\ Range(d.final) = Range(e.final)
    /\ Behaviour(d) = Behaviour(e)

\* C3 (as claimed): a definition produced by the flat-record build or by
\* parse_dot_file, once serialized, is deserialized without failure to a
\* definition with the same states, alphabet, initial state, final states
\* and transitions.
C3_RoundTrip ==
    (saved # NoData /\ pc # "saved")
    => pc = "loaded" /\ SameDefinition(loaded, automaton)

----------------------------------------------------------------------------
(* Properties of the definition parse_dot_file hands to the engine *)

\* the state names a definition uses: initial state, final states, sources
\* and targets of its transitions
UsedStates(d) ==
    {d.initial} \cup Range(d.final)
      \cup {p[1] : p \in DOMAIN d.transitions}
      \cup UNION {Targets(d, p) : p \in DOMAIN d.transitions}

UsedSymbols(d) == {p[2] : p \in DOMAIN d.transitions}

\* C11 (as claimed): the state set of the definition parse_dot_file hands to
\* the constructor contains the initial state, every final state and the
\* source and every target of every transition.
C11_DotStatesComplete ==
    (path = "dot" /\ pc = "construct")
    => UsedStates(DotDefinition) \subseteq Range(DotDefinition.states)

\* C12 (as claimed): every symbol in a key of the transition map produced by
\* parse_dot_file is in the alphabet it produces, the empty symbol of an
\* unlabeled edge included.
C12_DotSymbolsInAlphabet ==
    (path = "dot" /\ pc = "construct")
    => UsedSymbols(DotDefinition) \subseteq Range(DotDefinition.alphabet)

\* C17: finalization never finds, while the kind is 'dfa', a pair whose
\* number of accumulated targets is not one: during the scan every pair of a
\* 'dfa' accumulation has a list of exactly one target, and no run ends with
\* the inconsistent-determinism error.
C17_InconsistentDeterminismUnreachable ==
    path = "dot" =>
      /\ scan.automaton_type = "dfa" =>
           \A p \in DOMAIN scan.transitions : Len(scan.transitions[p]) = 1
      /\ BadPairs(scan) = {}
      /\ error.kind # "InconsistentDeterminism"

\* C17 witness: finalization went over a 'dfa' accumulation of two pairs.
C17_Witness ==
    /\ path = "dot"
    /\ pc = "construct"
    /\ scan.automaton_type = "dfa"
    /\ Cardinality(DOMAIN scan.transitions) >= 2
    /\ DOMAIN processed_transitions = DOMAIN scan.transitions

----------------------------------------------------------------------------
(* Properties of the failures of the flat-record build *)

BuildFailures ==
    {"InitialNotInStates", "FinalNotInStates", "MalformedRecord", "UnknownState",
     "UnknownSymbol", "DuplicateTransition"}

\* some check of the flat-record build has failed on the arguments read so
\* far: the initial-state check, the final-state check, or a check of a record
FlatCheckFailed ==
    \/ pc # "check_initial" /\ initial \notin Range(states)
    \/ /\ pc \notin {"check_initial", "check_final"}
       /\ ~(Range(final_states) \subseteq Range(states))
    \/ BuildTransitions(automaton_type, records, states, alphabet).error # NoError

\* C13: once a check of the flat-record build has failed, the process has
\* exited with status 1 and a build error, no automaton was constructed,
\* nothing was saved and nothing was visualized; and a build error is only
\* ever reported in such a state.
C13_FailFast ==
    path = "flat" =>
      /\ FlatCheckFailed =>
           /\ pc = "exit"
           /\ exit_status = 1
           /\ error.kind \in BuildFailures
           /\ automaton = NoAutomaton
           /\ saved = NoData
           /\ ~visualized
      /\ error.kind \in BuildFailures => pc = "exit" /\ automaton = NoAutomaton

\* C13 witness: a build that stopped on its third record with two pairs
\* already in the table.
C13_Witness ==
    /\ path = "flat"
    /\ pc = "exit"
    /\ exit_status = 1
    /\ Len(records) = 3
    /\ error.record = records[3]
    /\ Cardinality(DOMAIN transitions) = 2
    /\ automaton = NoAutomaton
    /\ saved = NoData
    /\ ~visualized

\* the number of comma-separated fields of a record
FieldCount(t) == Len(Split(t, ","))

BadShape(t) ==
    FieldCount(t) < 3 \/ (automaton_type = "dfa" /\ FieldCount(t) # 3)

\* C15: a record of fewer than 3 fields, or for 'dfa' of a field count other
\* than 3, ends the build with the malformed-record error on that record;
\* the malformed-record error is reported for no other record.
C15_RecordShape ==
    InFlatBuild =>
      /\ \A i \in 1..Len(records) :
           BadShape(records[i]) =>
             /\ i = Len(records)
             /\ pc = "exit"
             /\ exit_status = 1
             /\ error.kind = "MalformedRecord"
             /\ error.record = records[i]
      /\ error.kind = "MalformedRecord" => BadShape(error.record)

\* C15 witness: a 'dfa' build stopped by a record of four fields after a
\* record of three fields was accepted.
C15_Witness ==
    /\ InFlatBuild
    /\ automaton_type = "dfa"
    /\ pc = "exit"
    /\ error.kind = "MalformedRecord"
    /\ FieldCount(error.record) = 4
    /\ Len(records) >= 2
    /\ FieldCount(records[1]) = 3

\* C16: the flat-record path reaches the constructor call only with an
\* initial state and final states among the declared states and transitions
\* whose source and targets are declared states and whose symbol is in the
\* declared alphabet.
C16_FlatDefinitionWellFormed ==
    (path = "flat" /\ pc = "create") =>
      LET d == Definition(automaton_type, alphabet, states, initial,
                          final_states, transitions) IN
      /\ UsedStates(d) \subseteq Range(states)
      /\ UsedSymbols(d) \subseteq Range(alphabet)

\* C16 witness: the constructor is about to be called with an 'nfa' table of
\* two pairs, one of them with two targets.
C16_Witness ==
    /\ path = "flat"
    /\ pc = "create"
    /\ automaton_type = "nfa"
    /\ Cardinality(DOMAIN transitions) = 2
    /\ \E p \in DOMAIN transitions : Cardinality(Range(transitions[p])) = 2

\* C18: every key of the 'nfa' flat-record table and of the transition map
\* of an 'nfa' reconstruction has at least one target.
C18_NoEmptyTargets ==
    /\ (path = "flat" /\ automaton_type = "nfa") =>
         \A p \in DOMAIN transitions : Len(transitions[p]) >= 1
    /\ (path = "dot" /\ scan.automaton_type = "nfa") =>
         /\ \A p \in DOMAIN scan.transitions : Len(scan.transitions[p]) >= 1
         /\ \A p \in DOMAIN processed_transitions :
              Len(processed_transitions[p]) >= 1

\* C18 witness: an 'nfa' automaton created from a table of three pairs.
C18_Witness ==
    /\ path = "flat"
    /\ automaton_type = "nfa"
    /\ pc = "ready"
    /\ Cardinality(DOMAIN automaton.transitions) = 3
    /\ \A p \in DOMAIN automaton.transitions : Len(automaton.transitions[p]) >= 1

\* C19 (as claimed): in the 'nfa' flat-record build no target appears more
\* than once in the collection stored for a pair.
C19_NfaTargetsOnce ==
    (path = "flat" /\ automaton_type = "nfa") =>
      \A p \in DOMAIN transitions :
        Len(transitions[p]) = Cardinality(Range(transitions[p]))

----------------------------------------------------------------------------
(* Properties of the decoding of keys *)

FirstComma(k) == CHOOSE i \in 1..Len(k) : k[i] = "," /\ \A j \in 1..(i - 1) : k[j] # ","

\* the key split at its first comma
SplitAtFirst(k) ==
    <<SubSeq(k, 1, FirstComma(k) - 1), SubSeq(k, FirstComma(k) + 1, Len(k))>>

\* C14 (as claimed): a saved record all of whose keys hold a comma is loaded
\* without a key failure, and each key is decoded to the text before its
\* first comma and the text after it.
C14_SplitAtFirstComma ==
    (/\ saved # NoData
     /\ pc # "saved"
     /\ \A k \in DOMAIN saved.transitions : Contains(k, ","))
    => /\ error.kind # "MalformedKey"
       /\ pc = "loaded" =>
            DOMAIN loaded.transitions =
              {SplitAtFirst(k) : k \in DOMAIN saved.transitions}

----------------------------------------------------------------------------
(* Properties of the builds of main.py and fsm_creator.py *)

InOtherDfaBuild ==
    path \in {"main", "creator"} /\ automaton_type = "dfa" /\ records # <<>>

\* a valid transition for the program that reads it: a record the program
\* accepts on an empty table
ValidTransition(t) ==
    IF path = "main"
    THEN MainDfaRecord(EmptyDict, t, states, alphabet).error = NoError
    ELSE CreatorRecord("dfa", EmptyDict, t, states, alphabet).error = NoError

\* C20 (as claimed): in the 'dfa' builds of fsm_creator.py and main.py over
\* valid transitions, a transition for an already defined pair is rejected
\* with an error and every pair keeps the target of its first transition.
C20_SecondDefinitionRejected ==
    (/\ InOtherDfaBuild
     /\ \A i \in 1..Len(records) : ValidTransition(records[i]))
    => /\ \A p \in DOMAIN transitions :
            transitions[p] = TargetsOf(records[FirstWith(records, p)])[1]
       /\ \A i, j \in 1..Len(records) :
            (i < j /\ PairOf(records[i]) = PairOf(records[j]))
            => j = Len(records) /\ error # NoError

\* C21 (as claimed): in the 'nfa' build of main.py, after records that were
\* all accepted, the targets stored for a pair contain the targets of every
\* record naming the pair.
C21_MainNfaMerges ==
    (/\ path = "main"
     /\ automaton_type = "nfa"
     /\ records # <<>>
     /\ pc # "exit")
    => \A i \in 1..Len(records) :
         /\ PairOf(records[i]) \in DOMAIN transitions
         /\ Range(TargetsOf(records[i])) \subseteq
              Range(transitions[PairOf(records[i])])

----------------------------------------------------------------------------
(* Properties of the order of the checks of the flat-record build *)

RecordErrors ==
    {"MalformedRecord", "UnknownState", "UnknownSymbol", "DuplicateTransition"}

\* record i of rs violates a check of the build: its shape, an undeclared
\* identifier, or ('dfa') a pair that an earlier record already names
RecordInvalid(rs, i) ==
    \/ BadShape(rs[i])
    \/ UnknownStates(rs[i]) # {}
    \/ UnknownSymbols(rs[i]) # {}
    \/ /\ automaton_type = "dfa"
       /\ \E j \in 1..(i - 1) : PairOf(rs[j]) = PairOf(rs[i])

C28_CheckOrder ==
    (InFlatBuild /\ automaton_type = "dfa" /\ error.kind \in RecordErrors) =>
      LET t == records[Len(records)]
          repeated == \E j \in 1..(Len(records) - 1) : PairOf(records[j]) = PairOf(t)
      IN
      /\ error.kind = "MalformedRecord" <=> FieldCount(t) # 3
      /\ FieldCount(t) = 3 =>
           /\ Parts(t)[1] \notin Range(states) =>
                error.kind = "UnknownState" /\ error.name = Parts(t)[1]
           /\ (Parts(t)[1] \in Range(states) /\ Parts(t)[2] \notin Range(alphabet)) =>
                error.kind = "UnknownSymbol" /\ error.name = Parts(t)[2]
           /\ (/\ Parts(t)[1] \in Range(states)
               /\ Parts(t)[2] \in Range(alphabet)
               /\ Parts(t)[3] \notin Range(states)) =>
                error.kind = "UnknownState" /\ error.name = Parts(t)[3]
           /\ error.kind = "DuplicateTransition" =>
                /\ repeated
                /\ {Parts(t)[1], Parts(t)[3]} \subseteq Range(states)
                /\ Parts(t)[2] \in Range(alphabet)

\* C28 witness: a record that repeats the pair of the first record and names
\* an undeclared target stopped the build with the unknown-state error.
C28_Witness ==
    /\ InFlatBuild
    /\ automaton_type = "dfa"
    /\ pc = "exit"
    /\ Len(records) >= 2
    /\ PairOf(records[Len(records)]) = PairOf(records[1])
    /\ error.kind = "UnknownState"
    /\ error.name = TargetsOf(records[Len(records)])[1]
    /\ Parts(records[Len(records)])[1] \in Range(states)

----------------------------------------------------------------------------
(* Properties of the lines parse_dot_file does not recognize *)

\* a line that is neither a double-shape node declaration, nor a start line,
\* nor a line containing '->'
UnrecognizedLine(raw) ==
    /\ ~IsDoubleCircleLine(Strip(raw))
    /\ ~StartsWith(Strip(raw), Sentinel)
    /\ ~Contains(Strip(raw), Arrow)

\* C23: the loop iteration on an unrecognized line leaves the state set, the
\* alphabet, the final set, the initial state, the transition map and the
\* inferred kind as they were, and the scan goes on without an error.
C23_UnrecognizedLineIgnored ==
    [][(/\ pc = "scan"
        /\ Len(dot_lines') = Len(dot_lines) + 1
        /\ UnrecognizedLine(dot_lines'[Len(dot_lines')]))
       => /\ scan' = scan
          /\ pc' = "scan"
          /\ error' = error
          /\ exit_status' = exit_status]_vars

\* C23 witness: an unrecognized line was scanned after an edge and a final
\* state had been read, and the accumulated definition is that of the lines
\* before it.
C23_Witness ==
    /\ path = "dot"
    /\ pc = "scan"
    /\ Len(dot_lines) = 3
    /\ UnrecognizedLine(dot_lines[3])
    /\ ~IsCircleLine(Strip(dot_lines[3]))
    /\ scan.transitions # EmptyDict
    /\ scan.final_states # {}
    /\ scan = ScanLines(SubSeq(dot_lines, 1, 2))

----------------------------------------------------------------------------
(* Properties of the interactive creator *)

\* an entry the loop rejects: fewer than 3 fields, an undeclared source
\* state, symbol or target state, or more than one target for a 'dfa'
CreatorRejects(t) ==
    \/ FieldCount(t) < 3
    \/ UnknownStates(t) # {}
    \/ UnknownSymbols(t) # {}
    \/ automaton_type = "dfa" /\ FieldCount(t) > 3

\* C29: an entry of the creator's loop that is rejected leaves the
\* transition map as it was before the entry, prints an error, and leaves
\* the loop at its prompt for the next entry.
C29_RejectedEntryKeepsMap ==
    [][(/\ path = "creator"
        /\ pc = "enter"
        /\ Len(records') = Len(records) + 1
        /\ CreatorRejects(records'[Len(records')]))
       => /\ transitions' = transitions
          /\ error' # NoError
          /\ error'.record = records'[Len(records')]
          /\ pc' = "enter"
          /\ exit_status' = exit_status]_vars

\* C29 witness: after an accepted entry, a 'dfa' entry with two targets was
\* rejected and the map still holds the first entry only.
C29_Witness ==
    /\ path = "creator"
    /\ pc = "enter"
    /\ automaton_type = "dfa"
    /\ Len(records) = 2
    /\ ~CreatorRejects(records[1])
    /\ CreatorRejects(records[2])
    /\ error.kind = "TooManyTargets"
    /\ DOMAIN transitions = {PairOf(records[1])}
    /\ PairOf(records[2]) # PairOf(records[1])

\* C30: the JSON record the creator writes has no key that fails to decode,
\* it decodes to the type, alphabet, states, initial state, final states and
\* transition map the creator holds, and main3-0.py launched on it never
\* reports a key failure and loads that definition.
C30_CreatorJsonDecodes ==
    (path = "creator" /\ saved # NoData) =>
      /\ MalformedKeys(saved) = {}
      /\ deserialize_automaton(saved) =
           Definition(automaton_type, alphabet, states, initial, final_states,
                      transitions)
      /\ error.kind # "MalformedKey"
      /\ pc = "loaded" =>
           loaded = Definition(automaton_type, alphabet, states, initial,
                               final_states, transitions)

\* C30 witness: main3-0.py loaded an 'nfa' of two pairs, one with two
\* targets, from the creator's record.
C30_Witness ==
    /\ path = "creator"
    /\ pc = "loaded"
    /\ automaton_type = "nfa"
    /\ Cardinality(DOMAIN loaded.transitions) = 2
    /\ \E p \in DOMAIN loaded.transitions : Len(loaded.transitions[p]) = 2
    /\ loaded.transitions = transitions

----------------------------------------------------------------------------
(* Properties of the interactive testing loop *)

\* the loop of main3-0.py has just read a line at one of its prompts
ReadAt(position) ==
    /\ session.program = "main3-0.py"
    /\ pc = position
    /\ session'.n = session.n + 1

\* input() has just raised EOFError in main3-0.py
EndOfInputAt(position) ==
    /\ session.program = "main3-0.py"
    /\ pc = position
    /\ session' # session
    /\ session'.typed = EndOfInput

\* the line just read spells word in some letter case, blanks around it aside
Spells(word) == Lower(Strip(session'.typed)) = word

\* the session has ended and the last thing printed is the goodbye message
SaidGoodbye ==
    /\ pc' = "goodbye"
    /\ session'.said # <<>>
    /\ session'.said[Len(session'.said)] = "Goodbye!"

\* C24: in main3-0.py, 'step' typed at the word prompt enters step-by-step
\* execution whatever the alphabet of the automaton is: the next position of
\* the loop is the step-mode symbol prompt.
C24_StepEntersStepMode ==
    [][ (ReadAt("prompt") /\ Spells(<<"s", "t", "e", "p">>))
          => pc' = "step_prompt" ]_vars

\* C25: the loops never call the engine with a symbol outside the alphabet
\* of the automaton: the word handed to accepts() has all its symbols in the
\* alphabet, and the symbol handed to push() is in the alphabet.
C25_EngineCallsWithinAlphabet ==
    /\ session.call.op = "accepts"
         => Range(session.call.arg) \subseteq Range(automaton.alphabet)
    /\ session.call.op = "push"
         => /\ Len(session.call.arg) = 1
            /\ session.call.arg[1] \in Range(automaton.alphabet)

\* a symbol has been pushed in step mode after a word was tested
C25_Witness ==
    /\ session.call.op = "push"
    /\ session.n = 3
    /\ pc = "step_prompt"

\* C27 as stated: in main3-0.py, 'exit' in any letter case, or end of input,
\* ends the session with the goodbye message at the word prompt and at the
\* step-mode symbol prompt alike.
C27_ExitEndsSessionAtEitherPrompt ==
    [][ (\E position \in {"prompt", "step_prompt"} :
           \/ ReadAt(position) /\ Spells(<<"e", "x", "i", "t">>)
           \/ EndOfInputAt(position))
          => SaidGoodbye ]_vars

\* C27 amended: 'exit' in any letter case at the word prompt, and end of
\* input at either prompt, end the session with the goodbye message; at the
\* step-mode symbol prompt 'exit' is no command: it is looked up in the
\* alphabet like any symbol, refused with an error or pushed, and step mode
\* goes on unless the engine raises.
C27_ExitEndsSessionAtWordPrompt ==
    [][ /\ (\/ ReadAt("prompt") /\ Spells(<<"e", "x", "i", "t">>)
            \/ EndOfInputAt("prompt")
            \/ EndOfInputAt("step_prompt"))
          => SaidGoodbye
        /\ (ReadAt("step_prompt") /\ Spells(<<"e", "x", "i", "t">>))
          => \/ /\ Strip(session'.typed) \notin Range(automaton.alphabet)
                /\ session'.call = NoCall
                /\ pc' = "step_prompt"
             \/ /\ Strip(session'.typed) \in Range(automaton.alphabet)
                /\ session'.call.op = "push"
                /\ pc' \in {"step_prompt", "goodbye"} ]_vars

\* 'Exit' with a capital and a blank before it ended a session of main3-0.py
\* as its third input
C27_Witness ==
    /\ session.program = "main3-0.py"
    /\ pc = "goodbye"
    /\ session.typed = <<" ", "E", "x", "i", "t">>
    /\ session.n = 3
    /\ session.said = <<"Goodbye!">>

----------------------------------------------------------------------------
(* Properties of the engine *)

\* C26: for every NFA n and every word w over its alphabet,
\* n.to_dfa().accepts(w) equals n.accepts(w) and
\* n.to_dfa().squash().accepts(w) equals n.accepts(w); on the NFA and the
\* words of test_nfa_to_dfa the answers are the ones the test asserts.
C26_ConversionsPreserveAcceptance ==
    engine.answers.asked =>
      /\ engine.answers.dfa = engine.answers.nfa
      /\ engine.answers.squashed = engine.answers.nfa
      /\ (engine.n = TestNfa /\ engine.word \in DOMAIN TestAnswers)
           => engine.answers.nfa = TestAnswers[engine.word]

\* a word of three symbols is accepted by an NFA with two targets for one
\* pair, whose DFA has three states that squash merges into fewer
C26_Witness ==
    /\ engine.answers.asked
    /\ engine.answers.nfa
    /\ Len(engine.word) = 3
    /\ \E p \in DOMAIN engine.n.transitions : Len(engine.n.transitions[p]) = 2
    /\ Len(engine.dfa.states) = 3
    /\ Len(engine.squashed.states) < Len(engine.dfa.states)

====
